---- MODULE Spec2Model ----
(***************************************************************************)
(* A model of the kstate library (src/kstate.c, the shared-memory version  *)
(* at lines 119-1013): state subscriptions onto named POSIX shared-memory  *)
(* segments and transactions that take their own mapping of a segment.     *)
(*                                                                         *)
(* The process is modelled with its heap objects (the state and the        *)
(* transaction structures the caller's pointers refer to), its table of    *)
(* open file descriptors, its memory mappings, and the system-wide         *)
(* namespace of shared-memory segments.  Every public function is one      *)
(* action; the library has no internal concurrency.                        *)
(***************************************************************************)
EXTENDS Integers, Sequences, FiniteSets, TLC

(***************************************************************************)
(* Bounds of the model.                                                    *)
(***************************************************************************)
\* caller pointer variables that may hold a kstate_state_p
NumStates == 2
\* caller pointer variables that may hold a kstate_transaction_p
NumTransactions == 2
\* file descriptors the process may hold open at once before the model stops
\* opening more (the library never closes one)
MaxOpenFds == 2
\* calls of kstate_new_transaction the model follows
MaxTransactionIds == 2

StateSlots == 1..NumStates
TxnSlots == 1..NumTransactions

(***************************************************************************)
(* Program and platform constants.                                         *)
(***************************************************************************)
KSTATE_READ == 1
KSTATE_WRITE == 2
KSTATE_MAX_NAME_LEN == 254
PAGE_SIZE == 4096
EPERM == 1
ENOENT == 2
EIO == 5
EBADF == 9
ENOMEM == 12
EACCES == 13
EMFILE == 24
EINVAL == 22
PROT_READ == 1
PROT_WRITE == 2
\* MAP_FAILED is (void *) -1
MAP_FAILED == -1
\* A uint32_t is held as the 32-bit two's-complement integer with the same
\* bits, so that the values from 2^31 up appear as negative numbers: the
\* largest uint32_t, 0xFFFFFFFF, is -1 and the largest positive int32_t is
\* 0x7FFFFFFF.  Equality and the test against 0 are those of the uint32_t.
UINT32_MAX == -1
INT32_MAX == 2147483647
\* file descriptors 0, 1 and 2 are the standard streams
FIRST_FD == 3

\* the null char pointer; a value no character string is equal to
NullName == <<"NULL">>

(***************************************************************************)
(* Bit operations on unsigned values, bit by bit as the C operators.       *)
(***************************************************************************)
RECURSIVE BitAnd(_, _)
BitAnd(a, b) ==
  IF a = 0 \/ b = 0 THEN 0
  ELSE (IF a % 2 = 1 /\ b % 2 = 1 THEN 1 ELSE 0) + 2 * BitAnd(a \div 2, b \div 2)

RECURSIVE BitOr(_, _)
BitOr(a, b) ==
  IF a = 0 THEN b
  ELSE IF b = 0 THEN a
  ELSE (IF a % 2 = 1 \/ b % 2 = 1 THEN 1 ELSE 0) + 2 * BitOr(a \div 2, b \div 2)

\* a & ~m
BitAndNot(a, m) == a - BitAnd(a, m)

(***************************************************************************)
(* Names.  A C string is a sequence of one-character strings.              *)
(***************************************************************************)
UpperChars == {"A","B","C","D","E","F","G","H","I","J","K","L","M",
               "N","O","P","Q","R","S","T","U","V","W","X","Y","Z"}
LowerChars == {"a","b","c","d","e","f","g","h","i","j","k","l","m",
               "n","o","p","q","r","s","t","u","v","w","x","y","z"}
DigitChars == {"0","1","2","3","4","5","6","7","8","9"}
isalnum(c) == c \in UpperChars \cup LowerChars \cup DigitChars

\* name[ii] for the 0-based index ii of the C code
CharAt(name, ii) == name[ii + 1]

\* The value of dot_at when the loop of kstate_check_name, entered at index
\* from with dot_at = d, reaches index ii: the index of the last '.' it has
\* passed, or d when it has passed none.
dot_at_before(name, from, d, ii) ==
  LET dots == {k \in from..(ii - 1) : CharAt(name, k) = "."}
  IN IF dots = {} THEN d ELSE CHOOSE k \in dots : \A j \in dots : j <= k

\* faulty variant of check_name_loop: no character of the name is looked at
check_name_loop_unchecked(name, ii, dot_at) == Len(name)

\* The loop of kstate_check_name from index ii on: it returns 0 at the first
\* index where it finds a '.' next to the previous one or a character that is
\* not alphanumeric, and the length when there is no such index.  dot_at is
\* an int that is compared with the size_t ii - 1: for ii = 0 that is
\* SIZE_MAX, which the non-negative dot_at never equals.
check_name_loop(name, ii, dot_at) ==
  LET returns_0 ==
        {k \in ii..(Len(name) - 1) :
           IF CharAt(name, k) = "."
           THEN k > 0 /\ dot_at_before(name, ii, dot_at, k) = k - 1
           ELSE ~isalnum(CharAt(name, k))}
  IN IF returns_0 = {} THEN Len(name) ELSE 0

kstate_check_name(name) ==
  IF name = NullName THEN 0
  ELSE IF Len(name) = 0 THEN 0
  ELSE IF Len(name) > KSTATE_MAX_NAME_LEN THEN 0
  ELSE IF CharAt(name, 0) = "." \/ CharAt(name, Len(name) - 1) = "." THEN 0
  ELSE check_name_loop(name, 0, 1)

\* faulty variant of state_permissions_are_bad: only the zero mask is refused
state_permissions_zero_is_bad(permissions) == permissions = 0

state_permissions_are_bad(permissions) ==
  IF permissions = 0 THEN TRUE
  ELSE IF BitAndNot(permissions, BitOr(KSTATE_READ, KSTATE_WRITE)) # 0 THEN TRUE
  ELSE FALSE

transaction_permissions_are_bad(permissions) ==
  IF permissions = 0 THEN TRUE
  ELSE IF BitAndNot(permissions, BitOr(KSTATE_READ, KSTATE_WRITE)) # 0 THEN TRUE
  ELSE FALSE

\* faulty variant of add_read: the permissions are stored as requested
add_read_unchanged(permissions) == permissions

\* "add READ back in"
add_read(permissions) ==
  IF BitAnd(permissions, KSTATE_READ) = 0
  THEN BitOr(permissions, KSTATE_READ)
  ELSE permissions

(***************************************************************************)
(* Inputs of the calls.                                                    *)
(***************************************************************************)
Fred == <<"F","r","e","d">>
Jim == <<"J","i","m">>
NameInputs == {NullName, Fred, Jim}
PermInputs == {0, KSTATE_READ, KSTATE_WRITE, 3, 4}
\* platform failures a call may meet
SubscribeFaults == {"none", "malloc", "ftruncate", "mmap"}
StartFaults == {"none", "malloc", "mmap"}
UnmapFaults == {"none", "munmap"}

(***************************************************************************)
(* State of the process and of the system.                                 *)
(***************************************************************************)
VARIABLES
  state,                \* caller pointer -> struct kstate_state (domain: non-NULL pointers)
  transaction,          \* caller pointer -> struct kstate_transaction
  next_transaction_id,  \* the static uint32_t counter of kstate_new_transaction
  fds,                  \* open file descriptor -> [seg, rdwr]
  maps,                 \* mapped address -> [seg, length, prot]
  shm,                  \* existing shared-memory segment name -> size
  write_subscribed,     \* history: the names a subscription with WRITE has succeeded on
  validation,           \* the arguments handed to the validation functions and
                        \* what each function that has been called returned
  call,                 \* caller pointer -> the kstate_subscribe call in progress
                        \* on it: its position and its local variables
  unique                \* the process id, the static counter of
                        \* kstate_get_unique_name and the names it has returned

vars == <<state, transaction, next_transaction_id, fds, maps, shm, write_subscribed,
          validation, call, unique>>

\* f with key k removed
Without(f, k) == [x \in DOMAIN f \ {k} |-> f[x]]
\* f with key k set to v
With(f, k, v) == [x \in DOMAIN f \cup {k} |-> IF x = k THEN v ELSE f[x]]

\* open(2) and shm_open(3) return the lowest descriptor that is not open
lowest_free_fd == CHOOSE fd \in FIRST_FD..(FIRST_FD + Cardinality(DOMAIN fds)) :
                    /\ fd \notin DOMAIN fds
                    /\ \A g \in FIRST_FD..(fd - 1) : g \in DOMAIN fds
\* what shm_open meets in a process whose limit on open descriptors leaves
\* MaxOpenFds of them to the library: the table is full or it is not
shm_open_fault == IF Cardinality(DOMAIN fds) >= MaxOpenFds THEN "emfile" ELSE "none"
\* the address the kernel picks for a new mapping: one no mapping occupies
fresh_addr == CHOOSE a \in 1..(Cardinality(DOMAIN maps) + 1) :
                /\ a \notin DOMAIN maps
                /\ \A b \in 1..(a - 1) : b \in DOMAIN maps

\* mmap(NULL, length, prot, MAP_SHARED, fd, 0) with the descriptors in table
\* open: a shared writable mapping needs a descriptor opened O_RDWR, any
\* mapping needs an open descriptor
mmap_errno(prot, fd, table) ==
  IF fd \notin DOMAIN table THEN EBADF
  ELSE IF BitAnd(prot, PROT_WRITE) # 0 /\ ~table[fd].rdwr THEN EACCES
  ELSE 0

\* no validation function has been called on its own
NoValidation == [name |-> NullName, permissions |-> 0, done |-> {}, name_len |-> 0,
                 state_bad |-> FALSE, transaction_bad |-> FALSE]

\* no call of kstate_subscribe is in progress on the handle
Idle == [at |-> "idle", name |-> NullName, permissions |-> 0, fd |-> -1]
NoCall == [s \in StateSlots |-> Idle]

\* kstate_get_unique_name has not been called in the process
NoUnique == [pid |-> 13735, extra |-> 0, returned |-> {}]

kstate_state_is_subscribed(s) == s \in DOMAIN state /\ state[s].name # NullName

kstate_transaction_is_active(t) ==
  t \in DOMAIN transaction /\ transaction[t].name # NullName

Init ==
  /\ state = <<>>
  /\ transaction = <<>>
  /\ next_transaction_id = 1
  /\ fds = <<>>
  /\ maps = <<>>
  /\ shm = <<>>
  /\ write_subscribed = {}
  /\ call = NoCall
  /\ unique = NoUnique
  /\ validation = NoValidation

(***************************************************************************)
(* Every call is described by its outcome in the current state: its return *)
(* value rv (0 for a void function) and the value each variable it may     *)
(* write has afterwards.  The action of the call installs that outcome.    *)
(***************************************************************************)
StateOutcome(rv, st, f, m, sh) ==
  [rv |-> rv, state |-> st, fds |-> f, maps |-> m, shm |-> sh]

TransactionOutcome(rv, tr, m) == [rv |-> rv, transaction |-> tr, maps |-> m]

(***************************************************************************)
(* The state subscription operations.                                      *)
(***************************************************************************)
EmptyState == [name |-> NullName, permissions |-> 0, shm_fd |-> -1,
               map_addr |-> 0, map_length |-> 0]

\* The caller's pointer variable s is NULL before the call.  The pointer
\* variables are interchangeable, so the caller fills the first NULL one.
kstate_new_state(s) ==
  /\ s \notin DOMAIN state
  /\ \A r \in 1..(s - 1) : r \in DOMAIN state
  /\ state' = With(state, s, EmptyState)
  /\ UNCHANGED <<transaction, next_transaction_id, fds, maps, shm, write_subscribed, validation, call, unique>>

\* the name as shm_open sees it: '/' followed by the caller's name
shm_name(name) == <<"/">> \o name

\* the flags of shm_open: does it ask for O_RDWR | O_CREAT
open_creating(permissions) == BitAnd(permissions, KSTATE_WRITE) # 0

\* faulty variant of state_prot: the state maps its segment read-write, as a
\* transaction does
state_prot_writable(permissions) == BitOr(PROT_READ, PROT_WRITE)

\* the protection the state's own mapping asks of mmap
state_prot(permissions) == PROT_READ

\* faulty variant of subscribe_invalid: a handle that is still subscribed is
\* accepted
subscribe_invalid_resubscribing(s, name, permissions) ==
  \/ s \notin DOMAIN state
  \/ kstate_check_name(name) = 0
  \/ state_permissions_are_bad(permissions)

\* faulty variant of subscribe_invalid: neither the name nor the permissions
\* are validated
subscribe_invalid_unvalidated(s, name, permissions) ==
  \/ s \notin DOMAIN state
  \/ kstate_state_is_subscribed(s)

\* the argument checks of kstate_subscribe, each of which returns -EINVAL
subscribe_invalid(s, name, permissions) ==
  \/ s \notin DOMAIN state
  \/ kstate_state_is_subscribed(s)
  \/ kstate_check_name(name) = 0
  \/ state_permissions_are_bad(permissions)

subscribe_outcome(s, name, permissions, fault) ==
  LET perms   == add_read(permissions)
      seg     == shm_name(name)
      writing == open_creating(perms)
      fd      == lowest_free_fd
      addr    == fresh_addr
      opened  == With(fds, fd, [seg |-> seg, rdwr |-> writing])
      created == IF seg \in DOMAIN shm THEN shm ELSE With(shm, seg, 0)
      sized   == IF writing THEN With(created, seg, PAGE_SIZE) ELSE created
      cleared == [state[s] EXCEPT !.name = NullName, !.permissions = 0, !.shm_fd = fd]
      err     == IF fault = "mmap" THEN ENOMEM
                 ELSE mmap_errno(state_prot(perms), fd, opened)
      fail(rv) == StateOutcome(rv, state, fds, maps, shm)
  IN
  IF subscribe_invalid(s, name, permissions) THEN fail(-EINVAL)
  ELSE IF fault = "malloc" THEN
    \* state->name = malloc(...) stored NULL
    fail(-ENOMEM)
  ELSE IF fault = "emfile" THEN
    \* shm_open returned -1: the process has no descriptor left
    StateOutcome(-EMFILE,
                 [state EXCEPT ![s] = [@ EXCEPT !.name = NullName, !.permissions = 0,
                                                !.shm_fd = -1]],
                 fds, maps, shm)
  ELSE IF ~writing /\ seg \notin DOMAIN shm THEN
    \* shm_open(O_RDONLY) of a segment that does not exist returned -1
    StateOutcome(-ENOENT,
                 [state EXCEPT ![s] = [@ EXCEPT !.name = NullName, !.permissions = 0,
                                                !.shm_fd = -1]],
                 fds, maps, shm)
  ELSE IF writing /\ fault = "ftruncate" THEN
    StateOutcome(-EIO, [state EXCEPT ![s] = cleared], opened, maps, created)
  ELSE IF err # 0 THEN
    StateOutcome(-err,
                 [state EXCEPT ![s] = [cleared EXCEPT !.map_addr = 0, !.map_length = 0]],
                 opened, maps, sized)
  ELSE
    StateOutcome(0,
                 [state EXCEPT ![s] = [name |-> seg, permissions |-> perms,
                                       shm_fd |-> fd, map_addr |-> addr,
                                       map_length |-> PAGE_SIZE]],
                 opened,
                 With(maps, addr, [seg |-> seg, length |-> PAGE_SIZE,
                                   prot |-> state_prot(perms)]),
                 sized)

kstate_subscribe(s, name, permissions, fault) ==
  \E out \in {subscribe_outcome(s, name, permissions, fault)} :
  /\ Cardinality(DOMAIN out.fds) <= MaxOpenFds
  /\ state' = out.state
  /\ fds' = out.fds
  /\ maps' = out.maps
  /\ shm' = out.shm
  /\ write_subscribed' = (IF out.rv = 0 /\ open_creating(add_read(permissions))
                          THEN write_subscribed \cup {name}
                          ELSE write_subscribed)
  /\ UNCHANGED <<transaction, next_transaction_id, validation, call, unique>>

\* does the structure hold an address that unsubscribe and finish pass to munmap
has_mapping(st) == st.map_addr # 0 /\ st.map_addr # MAP_FAILED

\* faulty variant of unsubscribed: the address and length of the mapping stay
\* in the structure
unsubscribed_keeping_map(st) == [st EXCEPT !.name = NullName, !.permissions = 0]

\* the structure after kstate_unsubscribe
unsubscribed(st) ==
  [st EXCEPT !.map_addr = 0, !.map_length = 0, !.name = NullName, !.permissions = 0]

\* faulty variant of munmap: every mapping of the segment mapped at addr goes
munmap_whole_segment(addr, fault) ==
  IF fault = "munmap" \/ addr \notin DOMAIN maps THEN maps
  ELSE [a \in {x \in DOMAIN maps : maps[x].seg # maps[addr].seg} |-> maps[a]]

\* the mappings after munmap(addr, length), which fails under the fault
munmap(addr, fault) == IF fault = "munmap" THEN maps ELSE Without(maps, addr)

unsubscribe_outcome(s, fault) ==
  IF s \notin DOMAIN state THEN StateOutcome(0, state, fds, maps, shm)
  ELSE StateOutcome(0,
                    [state EXCEPT ![s] = unsubscribed(@)],
                    fds,
                    IF has_mapping(state[s]) THEN munmap(state[s].map_addr, fault)
                    ELSE maps,
                    shm)

kstate_unsubscribe(s, fault) ==
  \E out \in {unsubscribe_outcome(s, fault)} :
  /\ state' = out.state
  /\ maps' = out.maps
  /\ UNCHANGED <<transaction, next_transaction_id, fds, shm, write_subscribed, validation, call, unique>>

\* faulty variant of free_state_outcome: the structure is freed without
\* kstate_unsubscribe being called
free_state_outcome_leaking(s, fault) ==
  StateOutcome(0, Without(state, s), fds, maps, shm)

free_state_outcome(s, fault) ==
  IF s \notin DOMAIN state THEN StateOutcome(0, state, fds, maps, shm)
  ELSE LET out == IF kstate_state_is_subscribed(s)
                  THEN unsubscribe_outcome(s, fault)
                  ELSE StateOutcome(0, state, fds, maps, shm)
       IN StateOutcome(0, Without(out.state, s), out.fds, out.maps, out.shm)

kstate_free_state(s, fault) ==
  \E out \in {free_state_outcome(s, fault)} :
  /\ state' = out.state
  /\ maps' = out.maps
  /\ UNCHANGED <<transaction, next_transaction_id, fds, shm, write_subscribed, validation, call, unique>>

(***************************************************************************)
(* The transaction operations.                                             *)
(***************************************************************************)
\* n++ on a uint32_t: 0xFFFFFFFF is followed by 0
uint32_increment(n) == IF n = INT32_MAX THEN -INT32_MAX - 1 ELSE n + 1

\* the caller's pointer variable t, the first NULL one, receives the transaction
kstate_new_transaction(t) ==
  /\ t \notin DOMAIN transaction
  /\ \A r \in 1..(t - 1) : r \in DOMAIN transaction
  /\ next_transaction_id <= MaxTransactionIds
  /\ transaction' = With(transaction, t,
                         [name |-> NullName, id |-> next_transaction_id,
                          permissions |-> 0, map_addr |-> 0, map_length |-> 0])
  /\ next_transaction_id' = uint32_increment(next_transaction_id)
  /\ UNCHANGED <<state, fds, maps, shm, write_subscribed, validation, call, unique>>

\* faulty variant of write_refused: the state's permissions are not consulted
write_refused_never(permissions, state_permissions) == FALSE

\* a transaction asking for these (normalised) permissions is refused on a
\* state holding state_permissions
write_refused(permissions, state_permissions) ==
  BitAnd(permissions, KSTATE_WRITE) # 0 /\ BitAnd(state_permissions, KSTATE_WRITE) = 0

\* the protection kstate_start_transaction asks of mmap
transaction_prot(permissions) == BitOr(PROT_READ, PROT_WRITE)

\* faulty variant of start_invalid: a transaction that is still active is
\* started again
start_invalid_restarting(t, s, permissions) ==
  \/ t \notin DOMAIN transaction
  \/ s \notin DOMAIN state
  \/ ~kstate_state_is_subscribed(s)
  \/ transaction_permissions_are_bad(permissions)

\* the argument checks of kstate_start_transaction, each of which returns
\* -EINVAL
start_invalid(t, s, permissions) ==
  \/ t \notin DOMAIN transaction
  \/ s \notin DOMAIN state
  \/ kstate_transaction_is_active(t)
  \/ ~kstate_state_is_subscribed(s)
  \/ transaction_permissions_are_bad(permissions)

start_outcome(t, s, permissions, fault) ==
  LET perms == add_read(permissions)
      addr  == fresh_addr
      err   == IF fault = "mmap" THEN ENOMEM
               ELSE mmap_errno(transaction_prot(perms), state[s].shm_fd, fds)
      fail(rv) == TransactionOutcome(rv, transaction, maps)
  IN
  IF start_invalid(t, s, permissions) THEN fail(-EINVAL)
  ELSE IF write_refused(perms, state[s].permissions) THEN fail(-EINVAL)
  ELSE IF fault = "malloc" THEN
    \* transaction->permissions is assigned before the name is allocated
    TransactionOutcome(-ENOMEM, [transaction EXCEPT ![t].permissions = perms], maps)
  ELSE IF err # 0 THEN
    TransactionOutcome(-err,
                       [transaction EXCEPT ![t].name = NullName,
                                           ![t].permissions = 0,
                                           ![t].map_addr = 0,
                                           ![t].map_length = 0],
                       maps)
  ELSE
    TransactionOutcome(0,
                       [transaction EXCEPT ![t].name = state[s].name,
                                           ![t].permissions = perms,
                                           ![t].map_addr = addr,
                                           ![t].map_length = state[s].map_length],
                       With(maps, addr, [seg |-> fds[state[s].shm_fd].seg,
                                         length |-> state[s].map_length,
                                         prot |-> transaction_prot(perms)]))

\* faulty variant of kstate_start_transaction: a successful start takes the
\* state's subscription away
kstate_start_transaction_consuming(t, s, permissions, fault) ==
  \E out \in {start_outcome(t, s, permissions, fault)} :
  /\ transaction' = out.transaction
  /\ maps' = out.maps
  /\ state' = IF out.rv = 0 THEN [state EXCEPT ![s] = unsubscribed(@)] ELSE state
  /\ UNCHANGED <<next_transaction_id, fds, shm, write_subscribed, validation, call, unique>>

kstate_start_transaction(t, s, permissions, fault) ==
  \E out \in {start_outcome(t, s, permissions, fault)} :
  /\ transaction' = out.transaction
  /\ maps' = out.maps
  /\ UNCHANGED <<state, next_transaction_id, fds, shm, write_subscribed, validation, call, unique>>

\* faulty variant of finish_transaction: every transaction on the same name
\* is finished with it
finish_transaction_by_name(t, fault) ==
  LET same == {r \in DOMAIN transaction : transaction[r].name = transaction[t].name} IN
  TransactionOutcome(0,
                     [r \in DOMAIN transaction |->
                        IF r \in same
                        THEN [transaction[r] EXCEPT !.map_addr = 0, !.map_length = 0,
                                                    !.name = NullName, !.permissions = 0]
                        ELSE transaction[r]],
                     [a \in DOMAIN maps \ {transaction[r].map_addr : r \in same} |-> maps[a]])

\* faulty variant of finish_transaction: the fields are cleared although
\* munmap failed
finish_transaction_forgetting(t, fault) ==
  TransactionOutcome(IF has_mapping(transaction[t]) /\ fault = "munmap" THEN -EINVAL ELSE 0,
                     [transaction EXCEPT ![t].map_addr = 0,
                                         ![t].map_length = 0,
                                         ![t].name = NullName,
                                         ![t].permissions = 0],
                     IF has_mapping(transaction[t])
                     THEN munmap(transaction[t].map_addr, fault) ELSE maps)

\* finish_transaction on the transaction t, which the callers have found active
finish_transaction(t, fault) ==
  LET tr == transaction[t] IN
  IF has_mapping(tr) /\ fault = "munmap"
  THEN TransactionOutcome(-EINVAL, transaction, maps)
  ELSE TransactionOutcome(0,
                          [transaction EXCEPT ![t].map_addr = 0,
                                              ![t].map_length = 0,
                                              ![t].name = NullName,
                                              ![t].permissions = 0],
                          IF has_mapping(tr) THEN munmap(tr.map_addr, fault) ELSE maps)

\* faulty variant of abort_outcome: an inactive transaction is finished again
abort_outcome_unchecked(t, fault) ==
  IF t \notin DOMAIN transaction THEN TransactionOutcome(-EINVAL, transaction, maps)
  ELSE finish_transaction(t, fault)

abort_outcome(t, fault) ==
  IF t \notin DOMAIN transaction THEN TransactionOutcome(-EINVAL, transaction, maps)
  ELSE IF ~kstate_transaction_is_active(t)
  THEN TransactionOutcome(-EINVAL, transaction, maps)
  ELSE finish_transaction(t, fault)

\* faulty variant of commit_outcome: a transaction without WRITE is refused
\* with -EPERM and stays active
commit_outcome_needing_write(t, fault) ==
  IF t \notin DOMAIN transaction THEN TransactionOutcome(-EINVAL, transaction, maps)
  ELSE IF ~kstate_transaction_is_active(t)
  THEN TransactionOutcome(-EINVAL, transaction, maps)
  ELSE IF BitAnd(transaction[t].permissions, KSTATE_WRITE) = 0
  THEN TransactionOutcome(-EPERM, transaction, maps)
  ELSE finish_transaction(t, fault)

\* faulty variant of commit_outcome: the transaction is left as it is
commit_outcome_keeping(t, fault) ==
  IF t \notin DOMAIN transaction THEN TransactionOutcome(-EINVAL, transaction, maps)
  ELSE IF ~kstate_transaction_is_active(t)
  THEN TransactionOutcome(-EINVAL, transaction, maps)
  ELSE TransactionOutcome(0, transaction, maps)

commit_outcome(t, fault) ==
  IF t \notin DOMAIN transaction THEN TransactionOutcome(-EINVAL, transaction, maps)
  ELSE IF ~kstate_transaction_is_active(t)
  THEN TransactionOutcome(-EINVAL, transaction, maps)
  ELSE finish_transaction(t, fault)

kstate_abort_transaction(t, fault) ==
  \E out \in {abort_outcome(t, fault)} :
  /\ transaction' = out.transaction
  /\ maps' = out.maps
  /\ UNCHANGED <<state, next_transaction_id, fds, shm, write_subscribed, validation, call, unique>>

kstate_commit_transaction(t, fault) ==
  \E out \in {commit_outcome(t, fault)} :
  /\ transaction' = out.transaction
  /\ maps' = out.maps
  /\ UNCHANGED <<state, next_transaction_id, fds, shm, write_subscribed, validation, call, unique>>

\* faulty variant of free_transaction_outcome: the structure is freed without
\* kstate_abort_transaction being called
free_transaction_outcome_leaking(t, fault) ==
  TransactionOutcome(0, Without(transaction, t), maps)

free_transaction_outcome(t, fault) ==
  IF t \notin DOMAIN transaction THEN TransactionOutcome(0, transaction, maps)
  ELSE LET out == IF kstate_transaction_is_active(t)
                  THEN abort_outcome(t, fault)
                  ELSE TransactionOutcome(0, transaction, maps)
       IN TransactionOutcome(0, Without(out.transaction, t), out.maps)

kstate_free_transaction(t, fault) ==
  \E out \in {free_transaction_outcome(t, fault)} :
  /\ transaction' = out.transaction
  /\ maps' = out.maps
  /\ UNCHANGED <<state, next_transaction_id, fds, shm, write_subscribed, validation, call, unique>>

(***************************************************************************)
(* The query operations.                                                   *)
(***************************************************************************)
\* faulty variant of kstate_get_state_name: the leading '/' is not skipped
kstate_get_state_name_unstripped(s) ==
  IF kstate_state_is_subscribed(s) THEN state[s].name ELSE NullName

kstate_get_state_name(s) ==
  IF kstate_state_is_subscribed(s) THEN Tail(state[s].name) ELSE NullName

\* faulty variant of kstate_get_transaction_state_name: the leading '/' is not
\* skipped
kstate_get_transaction_state_name_unstripped(t) ==
  IF kstate_transaction_is_active(t) THEN transaction[t].name ELSE NullName

kstate_get_transaction_state_name(t) ==
  IF kstate_transaction_is_active(t) THEN Tail(transaction[t].name) ELSE NullName

kstate_get_state_permissions(s) ==
  IF kstate_state_is_subscribed(s) THEN state[s].permissions ELSE 0

kstate_get_transaction_permissions(t) ==
  IF kstate_transaction_is_active(t) THEN transaction[t].permissions ELSE 0

kstate_get_transaction_id(t) ==
  IF kstate_transaction_is_active(t) THEN transaction[t].id ELSE 0

(***************************************************************************)
(* The specifications: Spec has every platform call succeed whenever its   *)
(* arguments allow it; SpecF also lets malloc, ftruncate and mmap fail in  *)
(* kstate_subscribe and kstate_start_transaction, and munmap fail where    *)
(* the library reports it, in finish_transaction.                          *)
(***************************************************************************)
NewState == \E s \in StateSlots : kstate_new_state(s)
Subscribe ==
  \E s \in StateSlots, n \in NameInputs, p \in PermInputs : kstate_subscribe(s, n, p, "none")
Unsubscribe == \E s \in StateSlots : kstate_unsubscribe(s, "none")
FreeState == \E s \in StateSlots : kstate_free_state(s, "none")
NewTransaction == \E t \in TxnSlots : kstate_new_transaction(t)
StartTransaction ==
  \E t \in TxnSlots, s \in StateSlots, p \in PermInputs :
    kstate_start_transaction(t, s, p, "none")
AbortTransaction == \E t \in TxnSlots : kstate_abort_transaction(t, "none")
CommitTransaction == \E t \in TxnSlots : kstate_commit_transaction(t, "none")
FreeTransaction == \E t \in TxnSlots : kstate_free_transaction(t, "none")

Next ==
  \/ NewState
  \/ Subscribe
  \/ Unsubscribe
  \/ FreeState
  \/ NewTransaction
  \/ StartTransaction
  \/ AbortTransaction
  \/ CommitTransaction
  \/ FreeTransaction

Spec == Init /\ [][Next]_vars

SubscribeF ==
  \E s \in StateSlots, n \in NameInputs, p \in PermInputs, f \in SubscribeFaults :
    kstate_subscribe(s, n, p, f)
StartTransactionF ==
  \E t \in TxnSlots, s \in StateSlots, p \in PermInputs, f \in StartFaults :
    kstate_start_transaction(t, s, p, f)
AbortTransactionF == \E t \in TxnSlots, f \in UnmapFaults : kstate_abort_transaction(t, f)
CommitTransactionF == \E t \in TxnSlots, f \in UnmapFaults : kstate_commit_transaction(t, f)

NextF ==
  \/ NewState
  \/ SubscribeF
  \/ Unsubscribe
  \/ FreeState
  \/ NewTransaction
  \/ StartTransactionF
  \/ AbortTransactionF
  \/ CommitTransactionF
  \/ FreeTransaction

SpecF == Init /\ [][NextF]_vars

(***************************************************************************)
(* SpecWrap follows the library from the state it is in after 2^32 - 2     *)
(* calls of kstate_new_transaction, each followed by                       *)
(* kstate_free_transaction: no object is allocated and the counter holds   *)
(* 0xFFFFFFFF.  One name and the valid permissions are enough here.        *)
(***************************************************************************)
InitWrap ==
  /\ state = <<>>
  /\ transaction = <<>>
  /\ next_transaction_id = UINT32_MAX
  /\ fds = <<>>
  /\ maps = <<>>
  /\ shm = <<>>
  /\ write_subscribed = {}
  /\ call = NoCall
  /\ unique = NoUnique
  /\ validation = NoValidation

SubscribeWrap ==
  \E s \in StateSlots, p \in {KSTATE_READ, KSTATE_WRITE} : kstate_subscribe(s, Fred, p, "none")
StartTransactionWrap ==
  \E t \in TxnSlots, s \in StateSlots, p \in {KSTATE_READ, KSTATE_WRITE} :
    kstate_start_transaction(t, s, p, "none")

NextWrap ==
  \/ NewState
  \/ SubscribeWrap
  \/ Unsubscribe
  \/ FreeState
  \/ NewTransaction
  \/ StartTransactionWrap
  \/ AbortTransaction
  \/ CommitTransaction
  \/ FreeTransaction

SpecWrap == InitWrap /\ [][NextWrap]_vars

(***************************************************************************)
(* SpecDescriptors follows the library in a process whose limit on open    *)
(* descriptors (RLIMIT_NOFILE) leaves MaxOpenFds of them to the library:   *)
(* shm_open fails with EMFILE when that many are open.                     *)
(***************************************************************************)
SubscribeDescriptors ==
  \E s \in StateSlots, n \in NameInputs, p \in PermInputs :
    kstate_subscribe(s, n, p, shm_open_fault)

NextDescriptors ==
  \/ NewState
  \/ SubscribeDescriptors
  \/ Unsubscribe
  \/ FreeState
  \/ NewTransaction
  \/ StartTransaction
  \/ AbortTransaction
  \/ CommitTransaction
  \/ FreeTransaction

SpecDescriptors == Init /\ [][NextDescriptors]_vars

(***************************************************************************)
(* SpecAllocation lets malloc return NULL in kstate_new_state and          *)
(* kstate_new_transaction.  Both pass malloc's result to memset and store  *)
(* through it without a test; with NULL that is undefined, and what every  *)
(* build of it does is a store through the null pointer, which kills the   *)
(* process with SIGSEGV.  The kernel then closes the descriptors and drops *)
(* the mappings of the process, its handles and its id counter are gone,   *)
(* and the segments stay; the model goes on with the process that is       *)
(* started next.                                                           *)
(***************************************************************************)
AllocationFaults == {"none", "malloc"}

\* the ways a call of kstate_new_state on the NULL pointer s can end, each
\* with the handles the process has afterwards
new_state_outcomes(s, fault) ==
  IF fault = "malloc"
  THEN {[result |-> "SIGSEGV", state |-> << >>]}
  ELSE {[result |-> "handle", state |-> With(state, s, EmptyState)]}

\* the same for kstate_new_transaction, with the id counter afterwards
new_transaction_outcomes(t, fault) ==
  IF fault = "malloc"
  THEN {[result |-> "SIGSEGV", transaction |-> << >>, next_transaction_id |-> 1]}
  ELSE {[result |-> "handle",
         transaction |-> With(transaction, t,
                              [name |-> NullName, id |-> next_transaction_id,
                               permissions |-> 0, map_addr |-> 0, map_length |-> 0]),
         next_transaction_id |-> uint32_increment(next_transaction_id)]}

\* the process is killed by a signal and another one is started
process_killed ==
  /\ state' = << >>
  /\ transaction' = << >>
  /\ next_transaction_id' = 1
  /\ fds' = << >>
  /\ maps' = << >>
  /\ UNCHANGED <<shm, write_subscribed, validation, call, unique>>

kstate_new_state_allocating(s, fault) ==
  /\ s \notin DOMAIN state
  /\ \A r \in 1..(s - 1) : r \in DOMAIN state
  /\ \E out \in new_state_outcomes(s, fault) :
       IF out.result = "handle"
       THEN /\ state' = out.state
            /\ UNCHANGED <<transaction, next_transaction_id, fds, maps, shm,
                           write_subscribed, validation, call, unique>>
       ELSE process_killed

kstate_new_transaction_allocating(t, fault) ==
  /\ t \notin DOMAIN transaction
  /\ \A r \in 1..(t - 1) : r \in DOMAIN transaction
  /\ next_transaction_id <= MaxTransactionIds
  /\ \E out \in new_transaction_outcomes(t, fault) :
       IF out.result = "handle"
       THEN /\ transaction' = out.transaction
            /\ next_transaction_id' = out.next_transaction_id
            /\ UNCHANGED <<state, fds, maps, shm, write_subscribed, validation, call, unique>>
       ELSE process_killed

NewStateAllocation ==
  \E s \in StateSlots, f \in AllocationFaults : kstate_new_state_allocating(s, f)
NewTransactionAllocation ==
  \E t \in TxnSlots, f \in AllocationFaults : kstate_new_transaction_allocating(t, f)

NextAllocation ==
  \/ NewStateAllocation
  \/ Subscribe
  \/ Unsubscribe
  \/ FreeState
  \/ NewTransactionAllocation
  \/ StartTransaction
  \/ AbortTransaction
  \/ CommitTransaction
  \/ FreeTransaction

SpecAllocation == Init /\ [][NextAllocation]_vars

(***************************************************************************)
(* SpecRace follows kstate_subscribe one platform call at a time, so that  *)
(* two processes can be inside it at once.  Each handle belongs to a       *)
(* process of its own; the segments are shared by the processes, and a     *)
(* descriptor or an address of one process is never a descriptor or an     *)
(* address of the other, so one table holds them for both.  call[s].at is  *)
(* the platform call the process executes next.                            *)
(***************************************************************************)
\* kstate_subscribe up to and including shm_open
subscribe_open(s, name, permissions) ==
  LET perms   == add_read(permissions)
      seg     == shm_name(name)
      writing == open_creating(perms)
      fd      == lowest_free_fd
  IN
  /\ call[s].at = "idle"
  /\ IF subscribe_invalid(s, name, permissions)
     THEN UNCHANGED vars
     ELSE IF ~writing /\ seg \notin DOMAIN shm
     THEN /\ state' = [state EXCEPT ![s] = [@ EXCEPT !.name = NullName, !.permissions = 0,
                                                     !.shm_fd = -1]]
          /\ UNCHANGED <<transaction, next_transaction_id, fds, maps, shm,
                         write_subscribed, validation, call, unique>>
     ELSE /\ Cardinality(DOMAIN fds) < MaxOpenFds
          /\ fds' = With(fds, fd, [seg |-> seg, rdwr |-> writing])
          /\ shm' = (IF seg \in DOMAIN shm THEN shm ELSE With(shm, seg, 0))
          /\ call' = [call EXCEPT ![s] = [at |-> IF writing THEN "ftruncate" ELSE "mmap",
                                          name |-> name, permissions |-> perms, fd |-> fd]]
          /\ UNCHANGED <<state, transaction, next_transaction_id, maps,
                         write_subscribed, validation, unique>>

\* ftruncate(state->shm_fd, page_size), which a subscription with WRITE makes
subscribe_ftruncate(s) ==
  /\ call[s].at = "ftruncate"
  /\ shm' = With(shm, shm_name(call[s].name), PAGE_SIZE)
  /\ call' = [call EXCEPT ![s].at = "mmap"]
  /\ UNCHANGED <<state, transaction, next_transaction_id, fds, maps,
                 write_subscribed, validation, unique>>

\* mmap, and the return that follows it
subscribe_mmap(s) ==
  LET c    == call[s]
      addr == fresh_addr
      err  == mmap_errno(state_prot(c.permissions), c.fd, fds)
  IN
  /\ c.at = "mmap"
  /\ IF err # 0
     THEN /\ state' = [state EXCEPT ![s] = [name |-> NullName, permissions |-> 0,
                                            shm_fd |-> c.fd, map_addr |-> 0,
                                            map_length |-> 0]]
          /\ UNCHANGED <<maps, write_subscribed>>
     ELSE /\ state' = [state EXCEPT ![s] = [name |-> shm_name(c.name),
                                            permissions |-> c.permissions,
                                            shm_fd |-> c.fd, map_addr |-> addr,
                                            map_length |-> PAGE_SIZE]]
          /\ maps' = With(maps, addr, [seg |-> shm_name(c.name), length |-> PAGE_SIZE,
                                       prot |-> state_prot(c.permissions)])
          /\ write_subscribed' = (IF open_creating(c.permissions)
                                  THEN write_subscribed \cup {c.name}
                                  ELSE write_subscribed)
  /\ call' = [call EXCEPT ![s] = Idle]
  /\ UNCHANGED <<transaction, next_transaction_id, fds, shm, validation, unique>>

SubscribeOpen ==
  \E s \in StateSlots, n \in NameInputs, p \in PermInputs : subscribe_open(s, n, p)
SubscribeFtruncate == \E s \in StateSlots : subscribe_ftruncate(s)
SubscribeMmap == \E s \in StateSlots : subscribe_mmap(s)
UnsubscribeRace ==
  \E s \in StateSlots : call[s].at = "idle" /\ kstate_unsubscribe(s, "none")
FreeStateRace ==
  \E s \in StateSlots : call[s].at = "idle" /\ kstate_free_state(s, "none")

NextRace ==
  \/ NewState
  \/ SubscribeOpen
  \/ SubscribeFtruncate
  \/ SubscribeMmap
  \/ UnsubscribeRace
  \/ FreeStateRace

SpecRace == Init /\ [][NextRace]_vars

(***************************************************************************)
(* The validation functions on their own.  SpecValidation starts from an   *)
(* argument pair as kstate_subscribe and kstate_start_transaction receive  *)
(* it and calls kstate_check_name, state_permissions_are_bad and           *)
(* transaction_permissions_are_bad on it, each once, in any order.         *)
(***************************************************************************)
\* the longest name that is enumerated character by character
MaxNameLen == 4
\* a lower-case letter, an upper-case letter, a digit, the separator and a
\* character that is none of these
NameChars == {"a", "Z", "7", ".", "-"}

RECURSIVE NamesOfLen(_)
NamesOfLen(n) ==
  IF n = 0 THEN {<<>>}
  ELSE {Append(w, c) : w \in NamesOfLen(n - 1), c \in NameChars}

ShortNames == UNION {NamesOfLen(n) : n \in 0..MaxNameLen}

\* names at and just above the maximum length, of letters with at most one
\* '.' (at 1-based position d; none for d = 0)
LongNames ==
  {[i \in 1..n |-> IF i = d THEN "." ELSE "a"] :
     n \in {KSTATE_MAX_NAME_LEN, KSTATE_MAX_NAME_LEN + 1},
     d \in {0, 2, 3, 100, KSTATE_MAX_NAME_LEN}}

NameStrings == {NullName} \cup ShortNames \cup LongNames

\* the bits of a uint32_t permissions argument that the integers of the
\* model checker can hold: bit 31 is beyond them
PermissionBits == 0..30

RECURSIVE Pow2(_)
Pow2(i) == IF i = 0 THEN 1 ELSE 2 * Pow2(i - 1)

\* the mask with exactly the bits of the set bits
RECURSIVE MaskOf(_)
MaskOf(bits) ==
  IF bits = {} THEN 0
  ELSE LET i == CHOOSE x \in bits : TRUE IN Pow2(i) + MaskOf(bits \ {i})

\* the masks with at most two bits set, and those with READ or WRITE and at
\* most two more
MaskInputs ==
  {MaskOf(bits) :
     bits \in {{}} \cup {{i, j} : i \in PermissionBits, j \in PermissionBits}
                   \cup {{i, j, k} : i \in {0, 1}, j \in PermissionBits, k \in PermissionBits}}

InitValidation ==
  /\ state = <<>>
  /\ transaction = <<>>
  /\ next_transaction_id = 1
  /\ fds = <<>>
  /\ maps = <<>>
  /\ shm = <<>>
  /\ write_subscribed = {}
  /\ call = NoCall
  /\ unique = NoUnique
  /\ validation \in
       {[NoValidation EXCEPT !.name = n, !.permissions = KSTATE_READ] : n \in NameStrings}
         \cup {[NoValidation EXCEPT !.name = Fred, !.permissions = p] : p \in MaskInputs}

CheckName ==
  /\ "kstate_check_name" \notin validation.done
  /\ validation' = [validation EXCEPT !.done = @ \cup {"kstate_check_name"},
                                      !.name_len = kstate_check_name(validation.name)]
  /\ UNCHANGED <<state, transaction, next_transaction_id, fds, maps, shm, write_subscribed, call, unique>>

StatePermissions ==
  /\ "state_permissions_are_bad" \notin validation.done
  /\ validation' = [validation EXCEPT
                      !.done = @ \cup {"state_permissions_are_bad"},
                      !.state_bad = state_permissions_are_bad(validation.permissions)]
  /\ UNCHANGED <<state, transaction, next_transaction_id, fds, maps, shm, write_subscribed, call, unique>>

TransactionPermissions ==
  /\ "transaction_permissions_are_bad" \notin validation.done
  /\ validation' = [validation EXCEPT
                      !.done = @ \cup {"transaction_permissions_are_bad"},
                      !.transaction_bad =
                         transaction_permissions_are_bad(validation.permissions)]
  /\ UNCHANGED <<state, transaction, next_transaction_id, fds, maps, shm, write_subscribed, call, unique>>

NextValidation ==
  \/ CheckName
  \/ StatePermissions
  \/ TransactionPermissions

SpecValidation == InitValidation /\ [][NextValidation]_vars

(***************************************************************************)
(* kstate_get_unique_name.  SpecUnique is a process that calls it, with    *)
(* any of the prefixes below and any reading of the clock, and keeps the   *)
(* names it gets.                                                          *)
(***************************************************************************)
\* the calls of kstate_get_unique_name that are followed
MaxUniqueCalls == 2

Digit(d) == <<"0", "1", "2", "3", "4", "5", "6", "7", "8", "9">>[d + 1]

\* the number of decimal digits of value, counted by the do-while loop
RECURSIVE num_digits(_)
num_digits(value) == IF value \div 10 = 0 THEN 1 ELSE 1 + num_digits(value \div 10)

\* what %ld and %u print for a value that is not negative
RECURSIVE Decimal(_)
Decimal(value) ==
  IF value < 10 THEN <<Digit(value)>>
  ELSE Append(Decimal(value \div 10), Digit(value % 10))

\* what %06ld prints: zeros on the left up to six characters
RECURSIVE ZeroPadded(_, _)
ZeroPadded(digits, width) ==
  IF Len(digits) >= width THEN digits ELSE ZeroPadded(<<"0">> \o digits, width)

\* sprintf(name, "%s.%ld%06ld.%u.%u", prefix, tv.tv_sec, tv.tv_usec, pid, extra)
unique_name_format(prefix, tv, pid, extra) ==
  prefix \o <<".">> \o Decimal(tv.tv_sec) \o ZeroPadded(Decimal(tv.tv_usec), 6)
         \o <<".">> \o Decimal(pid) \o <<".">> \o Decimal(extra)

\* the size handed to malloc for the name
unique_name_size(prefix, tv, pid, extra) ==
  Len(prefix) + 1 + num_digits(tv.tv_sec) + 6 + 1 + num_digits(pid) + 1
              + num_digits(extra) + 1

\* the process ids a process may have
Pids == {7, 13735}
\* readings of gettimeofday: early and late seconds, few and many microseconds
Times == {[tv_sec |-> 5, tv_usec |-> 7], [tv_sec |-> 1793263072, tv_usec |-> 482837]}
\* what can go wrong in the platform during a call
UniqueFaults == {"none", "gettimeofday", "malloc"}

\* n times the letter a
Letters(n) == [i \in 1..n |-> "a"]
\* prefixes: NULL, the empty string, strings of one, two and more
\* characters with and without a '.', strings that are not names, and
\* letters around the length where the result passes KSTATE_MAX_NAME_LEN
UniquePrefixes ==
  {NullName, <<>>, Fred, Jim, <<"a">>, <<"a", "Z">>, <<"Z", "7">>, <<"a", ".", "b">>,
   <<"Z", "7", ".", "a">>, <<".", "a">>, <<"a", ".">>, <<"a", "-">>}
    \cup {Letters(n) : n \in 228..231}

\* the pointer returned and the value of extra after the call
unique_name_outcome(prefix, tv, fault) ==
  LET name == unique_name_format(prefix, tv, unique.pid, unique.extra)
      null == [name |-> NullName, extra |-> unique.extra]
  IN
  IF prefix = NullName THEN null
  ELSE IF fault = "gettimeofday" THEN null
  ELSE IF fault = "malloc" THEN null
  ELSE IF kstate_check_name(name) = 0
  THEN [name |-> NullName, extra |-> unique.extra + 1]
  ELSE [name |-> name, extra |-> unique.extra + 1]

kstate_get_unique_name(prefix, tv, fault) ==
  \E out \in {unique_name_outcome(prefix, tv, fault)} :
  /\ unique.extra < MaxUniqueCalls
  /\ unique' = [unique EXCEPT !.extra = out.extra,
                              !.returned = IF out.name = NullName THEN @
                                           ELSE @ \cup {out.name}]
  /\ UNCHANGED <<state, transaction, next_transaction_id, fds, maps, shm,
                 write_subscribed, validation, call>>

InitUnique ==
  /\ state = <<>>
  /\ transaction = <<>>
  /\ next_transaction_id = 1
  /\ fds = <<>>
  /\ maps = <<>>
  /\ shm = <<>>
  /\ write_subscribed = {}
  /\ call = NoCall
  /\ validation = NoValidation
  /\ unique \in {[NoUnique EXCEPT !.pid = pid] : pid \in Pids}

GetUniqueName ==
  \E prefix \in UniquePrefixes, tv \in Times, fault \in UniqueFaults :
    kstate_get_unique_name(prefix, tv, fault)

NextUnique == GetUniqueName

SpecUnique == InitUnique /\ [][NextUnique]_vars

(***************************************************************************)
(* Properties.                                                             *)
(***************************************************************************)
READWRITE == BitOr(KSTATE_READ, KSTATE_WRITE)

\* the pointer s refers to a state whose name is set
Subscribed(s) == s \in DOMAIN state /\ state[s].name # NullName
\* the pointer t refers to a transaction whose name is set
Active(t) == t \in DOMAIN transaction /\ transaction[t].name # NullName
\* the structure (a state or a transaction) holds a live mapping of its own
\* segment, of the recorded length
Mapped(st) ==
  /\ st.map_addr \in DOMAIN maps
  /\ maps[st.map_addr].seg = st.name
  /\ maps[st.map_addr].length = st.map_length
ValidNames == {n \in NameInputs : kstate_check_name(n) # 0}

\* the grammar of state names, rule by rule
NameIsNull(n) == n = NullName
NameIsEmpty(n) == n # NullName /\ Len(n) = 0
NameIsTooLong(n) == n # NullName /\ Len(n) > 254
NameHasOuterDot(n) == n # NullName /\ Len(n) > 0 /\ (n[1] = "." \/ n[Len(n)] = ".")
NameHasAdjacentDots(n) ==
  n # NullName /\ \E i \in 1..(Len(n) - 1) : n[i] = "." /\ n[i + 1] = "."
NameHasBadChar(n) ==
  n # NullName /\ \E i \in 1..Len(n) :
                    n[i] \notin UpperChars \cup LowerChars \cup DigitChars \cup {"."}
NameMatchesGrammar(n) ==
  ~(NameIsNull(n) \/ NameIsEmpty(n) \/ NameIsTooLong(n) \/ NameHasOuterDot(n)
      \/ NameHasAdjacentDots(n) \/ NameHasBadChar(n))

\* names that match the grammar: those of NameInputs and names with a '.' at
\* index 1, 2 and 3
GrammarNames ==
  {n \in NameInputs \cup {<<"a", ".", "b">>, <<"a", "b", ".", "c">>, <<"a", "b", "c", ".", "d">>} :
     NameMatchesGrammar(n)}

\* C1: once a transaction is started, no operation on state handles
\* (unsubscribe, free, subscribe again to the same or another name) changes
\* the transaction or its mapping, and as long as it is active abort and
\* commit on it return 0.
C1_TransactionOutlivesState ==
  /\ [][state' # state =>
          \A t \in TxnSlots :
            Active(t) =>
              /\ t \in DOMAIN transaction'
              /\ transaction'[t] = transaction[t]
              /\ transaction[t].map_addr \in DOMAIN maps'
              /\ maps'[transaction[t].map_addr] = maps[transaction[t].map_addr]]_vars
  /\ [](\A t \in TxnSlots :
          Active(t) =>
            /\ Mapped(transaction[t])
            /\ abort_outcome(t, "none").rv = 0
            /\ commit_outcome(t, "none").rv = 0)

\* an active transaction whose segment no state handle is subscribed to any
\* more, while a state handle is subscribed to another name
C1_Witness ==
  \E t \in TxnSlots :
    /\ Active(t)
    /\ Mapped(transaction[t])
    /\ \A s \in DOMAIN state : state[s].name # transaction[t].name
    /\ \E s \in StateSlots : Subscribed(s)

\* C2: abort and commit on a NULL or inactive transaction return -EINVAL and
\* change nothing; on an active transaction they return 0 unless munmap fails,
\* and a call that returns 0 leaves the transaction inactive, so that no second
\* finalization returns 0 before the next start.
C2_FinalizeOnce ==
  \A t \in TxnSlots, f \in UnmapFaults :
    LET a == abort_outcome(t, f)
        c == commit_outcome(t, f)
    IN /\ ~Active(t) =>
            /\ a = TransactionOutcome(-EINVAL, transaction, maps)
            /\ c = TransactionOutcome(-EINVAL, transaction, maps)
       /\ Active(t) =>
            /\ f = "none" => a.rv = 0 /\ c.rv = 0
            /\ a.rv = 0 => a.transaction[t].name = NullName
            /\ c.rv = 0 => c.transaction[t].name = NullName
            /\ a.rv # 0 => a.transaction = transaction /\ a.maps = maps
            /\ c.rv # 0 => c.transaction = transaction /\ c.maps = maps

\* an inactive transaction, a NULL transaction pointer and a segment that a
\* finished transaction may have mapped
C2_Witness ==
  /\ \E t \in DOMAIN transaction : ~Active(t)
  /\ \E t \in TxnSlots : t \notin DOMAIN transaction
  /\ \E s \in StateSlots : Subscribed(s)
  /\ maps # <<>>

\* C3: kstate_subscribe on a subscribed handle returns -EINVAL and leaves the
\* handle, the descriptors, the mappings and the segments as they are, for
\* every name and every permissions argument.
C3_SubscribeTwice ==
  \A s \in StateSlots :
    Subscribed(s) =>
      \A n \in NameInputs, p \in PermInputs, f \in SubscribeFaults :
        subscribe_outcome(s, n, p, f) = StateOutcome(-EINVAL, state, fds, maps, shm)

\* a subscribed handle, and a segment of another name it could ask for
C3_Witness ==
  \E s \in StateSlots :
    /\ Subscribed(s)
    /\ Mapped(state[s])
    /\ \E n \in ValidNames : shm_name(n) # state[s].name /\ shm_name(n) \in DOMAIN shm

\* C4: for each state handle, the name is set iff its segment descriptor is
\* open, and an unsubscribed handle has its descriptor field at -1 and no
\* mapping.
C4_NameIffDescriptorOpen ==
  \A s \in DOMAIN state :
    /\ (state[s].name # NullName) <=> (state[s].shm_fd \in DOMAIN fds)
    /\ state[s].name = NullName =>
         /\ state[s].shm_fd = -1
         /\ state[s].map_addr = 0
         /\ state[s].map_length = 0

\* C5: for each transaction, the name is set iff it holds a mapping, and an
\* inactive transaction has permissions 0 and map_length 0.
C5_TransactionFieldsAgree ==
  \A t \in DOMAIN transaction :
    /\ (transaction[t].name # NullName) <=> (transaction[t].map_addr # 0)
    /\ transaction[t].name # NullName => Mapped(transaction[t])
    /\ transaction[t].name = NullName =>
         /\ transaction[t].permissions = 0
         /\ transaction[t].map_length = 0

\* C6: kstate_subscribe with READ alone, on a name that matches the grammar
\* and that no subscription with WRITE has returned 0 on, returns -ENOENT,
\* creates no segment, opens no descriptor, maps nothing and leaves the handle
\* with every field empty.
C6_ReadOnlyFirst ==
  \A s \in DOMAIN state, n \in GrammarNames :
    (~Subscribed(s) /\ n \notin write_subscribed) =>
      subscribe_outcome(s, n, KSTATE_READ, "none")
        = StateOutcome(-ENOENT, [state EXCEPT ![s] = EmptyState], fds, maps, shm)

\* C7: while a handle a is subscribed with WRITE, kstate_subscribe of another,
\* unsubscribed handle b to the same name returns 0 for READ, WRITE and
\* READ|WRITE, leaves a untouched and maps b onto the same segment; and when
\* two handles are subscribed, unsubscribing or freeing one leaves the other
\* with unchanged fields and its mapping in place.
C7_TwoSubscribers ==
  \A a \in StateSlots, b \in StateSlots :
    /\ (a # b /\ Subscribed(a) /\ BitAnd(state[a].permissions, KSTATE_WRITE) # 0
           /\ b \in DOMAIN state /\ ~Subscribed(b)) =>
         \A p \in {KSTATE_READ, KSTATE_WRITE, READWRITE} :
           LET o == subscribe_outcome(b, Tail(state[a].name), p, "none") IN
           /\ o.rv = 0
           /\ o.state[a] = state[a]
           /\ o.state[b].name = state[a].name
           /\ o.state[b].map_addr # state[a].map_addr
           /\ o.state[b].map_addr \in DOMAIN o.maps
           /\ o.maps[o.state[b].map_addr].seg = maps[state[a].map_addr].seg
           /\ o.maps[state[a].map_addr] = maps[state[a].map_addr]
           /\ o.shm[state[a].name] = shm[state[a].name]
    /\ (a # b /\ Subscribed(a) /\ Subscribed(b)) =>
         \A o \in {unsubscribe_outcome(a, "none"), free_state_outcome(a, "none")} :
           /\ o.state[b] = state[b]
           /\ state[b].map_addr \in DOMAIN o.maps
           /\ o.maps[state[b].map_addr] = maps[state[b].map_addr]
           /\ o.shm = shm

\* two handles subscribed at once to one name, one READ|WRITE and one READ,
\* each with its own mapping of the segment
C7_Witness ==
  \E a \in StateSlots, b \in StateSlots :
    /\ Subscribed(a) /\ Subscribed(b)
    /\ state[a].name = state[b].name
    /\ state[a].permissions = READWRITE
    /\ state[b].permissions = KSTATE_READ
    /\ Mapped(state[a]) /\ Mapped(state[b])
    /\ state[a].map_addr # state[b].map_addr

\* C8: kstate_start_transaction asking for WRITE on a subscribed state that
\* lacks WRITE returns -EINVAL and changes nothing; no step changes a state
\* handle together with a transaction; and a transaction becomes active with
\* WRITE only on a state handle that holds WRITE at that moment.
C8_NoWriteEscalation ==
  /\ [](\A t \in DOMAIN transaction, s \in StateSlots :
          (~Active(t) /\ Subscribed(s)
             /\ BitAnd(state[s].permissions, KSTATE_WRITE) = 0) =>
            \A p \in {KSTATE_WRITE, READWRITE}, f \in StartFaults :
              start_outcome(t, s, p, f) = TransactionOutcome(-EINVAL, transaction, maps))
  /\ [][/\ transaction' # transaction => state' = state
        /\ \A t \in TxnSlots :
             (~Active(t) /\ t \in DOMAIN transaction'
                /\ transaction'[t].name # NullName
                /\ BitAnd(transaction'[t].permissions, KSTATE_WRITE) # 0) =>
               \E s \in StateSlots :
                 /\ Subscribed(s)
                 /\ state[s].name = transaction'[t].name
                 /\ BitAnd(state[s].permissions, KSTATE_WRITE) # 0]_vars

\* an inactive transaction next to a state subscribed with READ alone
C8_Witness ==
  \E t \in DOMAIN transaction, s \in StateSlots :
    /\ ~Active(t)
    /\ Subscribed(s)
    /\ state[s].permissions = KSTATE_READ

\* C9: kstate_start_transaction returns -EINVAL and changes nothing when the
\* transaction pointer is NULL, the state pointer is NULL, the transaction is
\* active or the state is not subscribed, whatever the permissions argument.
C9_StartPreconditions ==
  \A t \in TxnSlots, s \in StateSlots :
    (t \notin DOMAIN transaction \/ s \notin DOMAIN state \/ Active(t) \/ ~Subscribed(s)) =>
      \A p \in PermInputs, f \in StartFaults :
        start_outcome(t, s, p, f) = TransactionOutcome(-EINVAL, transaction, maps)

\* an active transaction next to a subscribed state it could be started on
\* again, and an inactive one next to an unsubscribed state
C9_Witness ==
  /\ \E t \in TxnSlots, s \in StateSlots :
       Active(t) /\ Subscribed(s) /\ BitAnd(state[s].permissions, KSTATE_WRITE) # 0
  /\ \E t \in DOMAIN transaction, s \in DOMAIN state : ~Active(t) /\ ~Subscribed(s)

\* C10: the permissions of every subscribed state and of every active
\* transaction are READ or READ|WRITE; a subscribe or a start that asks for
\* WRITE alone and returns 0 stores READ|WRITE, which the query reports.
C10_WriteImpliesRead ==
  /\ \A s \in StateSlots :
       Subscribed(s) =>
         /\ state[s].permissions \in {KSTATE_READ, READWRITE}
         /\ kstate_get_state_permissions(s) = state[s].permissions
  /\ \A t \in TxnSlots :
       Active(t) =>
         /\ transaction[t].permissions \in {KSTATE_READ, READWRITE}
         /\ kstate_get_transaction_permissions(t) = transaction[t].permissions
  /\ \A s \in StateSlots, n \in NameInputs :
       LET o == subscribe_outcome(s, n, KSTATE_WRITE, "none") IN
       o.rv = 0 => o.state[s].permissions = READWRITE
  /\ \A t \in TxnSlots, s \in StateSlots :
       LET o == start_outcome(t, s, KSTATE_WRITE, "none") IN
       o.rv = 0 => o.transaction[t].permissions = READWRITE

\* a subscribed state and an active transaction, both holding READ|WRITE,
\* next to handles on which WRITE alone can be asked for
C10_Witness ==
  /\ \E s \in StateSlots : Subscribed(s) /\ kstate_get_state_permissions(s) = READWRITE
  /\ \E t \in TxnSlots : Active(t) /\ kstate_get_transaction_permissions(t) = READWRITE
  /\ \E s \in DOMAIN state : ~Subscribed(s)
  /\ \E t \in DOMAIN transaction : ~Active(t)

(***************************************************************************)
(* Properties of the validation functions, under SpecValidation.           *)
(***************************************************************************)
\* C11: kstate_check_name returns the length of every name that matches the
\* grammar (1 to 254 characters of [A-Za-z0-9.], no '.' first or last, no two
\* adjacent '.'), wherever its dots are.
C11_CheckNameAccepts ==
  ("kstate_check_name" \in validation.done /\ NameMatchesGrammar(validation.name)) =>
    validation.name_len = Len(validation.name)

\* C12: kstate_check_name returns 0 for every name that is NULL, empty, longer
\* than 254 characters, starts or ends with '.', has two adjacent '.' or has a
\* character outside [A-Za-z0-9.], whatever other rules the name satisfies.
C12_CheckNameRejects ==
  LET n == validation.name IN
  ("kstate_check_name" \in validation.done
     /\ (NameIsNull(n) \/ NameIsEmpty(n) \/ NameIsTooLong(n) \/ NameHasOuterDot(n)
           \/ NameHasAdjacentDots(n) \/ NameHasBadChar(n))) =>
    validation.name_len = 0

\* kstate_check_name has been called on a name whose only fault is a pair of
\* adjacent dots
C12_Witness ==
  LET n == validation.name IN
  /\ "kstate_check_name" \in validation.done
  /\ NameHasAdjacentDots(n)
  /\ ~(NameIsEmpty(n) \/ NameIsTooLong(n) \/ NameHasOuterDot(n) \/ NameHasBadChar(n))

\* bit i of the mask m is set
MaskBit(m, i) == (m \div Pow2(i)) % 2 = 1
\* the mask is not zero and has no bit outside READ|WRITE
MaskAccepted(m) ==
  /\ m # 0
  /\ \A i \in PermissionBits : MaskBit(m, i) => Pow2(i) \in {KSTATE_READ, KSTATE_WRITE}

\* C13: for every permission mask (of bits 0 to 30), state_permissions_are_bad
\* and transaction_permissions_are_bad each return false iff the mask is not
\* zero and has no bit outside READ|WRITE, and the two return the same value.
C13_ValidatorsAgree ==
  LET m == validation.permissions
      s_done == "state_permissions_are_bad" \in validation.done
      t_done == "transaction_permissions_are_bad" \in validation.done
  IN /\ s_done => (validation.state_bad <=> ~MaskAccepted(m))
     /\ t_done => (validation.transaction_bad <=> ~MaskAccepted(m))
     /\ (s_done /\ t_done) => (validation.state_bad <=> validation.transaction_bad)

\* both validators have been called on a mask that has READ, WRITE and bit 30
C13_Witness ==
  /\ {"state_permissions_are_bad", "transaction_permissions_are_bad"} \subseteq validation.done
  /\ validation.permissions = KSTATE_READ + KSTATE_WRITE + Pow2(30)
  /\ validation.state_bad

(***************************************************************************)
(* Properties of the calls, continued.                                     *)
(***************************************************************************)
\* names that break one rule of the grammar each, next to the names of
\* NameInputs
BadNames ==
  {<<>>, <<".", "a">>, <<"a", ".">>, <<"a", ".", ".", "b">>, <<"a", "-", "b">>,
   [i \in 1..(KSTATE_MAX_NAME_LEN + 1) |-> "a"]}

\* C14: kstate_subscribe returns -EINVAL and changes nothing (no field of any
\* handle, no descriptor, no mapping, no segment) when the state pointer is
\* NULL, the name is NULL or breaks the grammar, or the permissions are 0 or
\* have a bit outside READ|WRITE, in any combination and whatever platform
\* call would fail.
C14_SubscribeInvalidArguments ==
  \A s \in StateSlots, n \in NameInputs \cup BadNames, p \in PermInputs :
    (s \notin DOMAIN state \/ ~NameMatchesGrammar(n)
       \/ p \notin {KSTATE_READ, KSTATE_WRITE, READWRITE}) =>
      \A f \in SubscribeFaults :
        subscribe_outcome(s, n, p, f) = StateOutcome(-EINVAL, state, fds, maps, shm)

\* an unsubscribed handle that was subscribed before, a NULL state pointer,
\* and an existing segment that a valid call could open
C14_Witness ==
  /\ \E s \in DOMAIN state : ~Subscribed(s) /\ state[s].shm_fd # -1
  /\ \E s \in StateSlots : s \notin DOMAIN state
  /\ shm # <<>>

\* C15: two transactions that are active at once report distinct ids, neither
\* of them 0, and abort, commit or free of one leaves the other as it is:
\* active, with the same id, fields and mapping.
C15_DistinctIds ==
  \A t \in TxnSlots, u \in TxnSlots :
    (t # u /\ Active(t) /\ Active(u)) =>
      /\ kstate_get_transaction_id(t) # 0
      /\ kstate_get_transaction_id(u) # 0
      /\ kstate_get_transaction_id(t) # kstate_get_transaction_id(u)
      /\ \A o \in {abort_outcome(t, "none"), commit_outcome(t, "none"),
                    free_transaction_outcome(t, "none")} :
           /\ u \in DOMAIN o.transaction
           /\ o.transaction[u] = transaction[u]
           /\ transaction[u].map_addr \in DOMAIN o.maps
           /\ o.maps[transaction[u].map_addr] = maps[transaction[u].map_addr]

\* C16: kstate_get_transaction_id returns 0 for a NULL pointer and for an
\* inactive transaction, and the stored id, which is not 0, for an active one;
\* no step changes the id stored in a transaction object, so the object
\* reports the same id on every query and again after it is restarted.
C16_IdStable ==
  /\ [](\A t \in TxnSlots :
          /\ ~Active(t) => kstate_get_transaction_id(t) = 0
          /\ Active(t) => /\ kstate_get_transaction_id(t) = transaction[t].id
                          /\ kstate_get_transaction_id(t) # 0)
  /\ [][\A t \in DOMAIN transaction :
          t \in DOMAIN transaction' => transaction'[t].id = transaction[t].id]_vars

\* C17: every step of the scenario does what the scenario expects, from every
\* state the step before it can leave: kstate_subscribe of an unsubscribed
\* handle to "Fred" with READ|WRITE returns 0 and leaves it subscribed with
\* READ|WRITE; kstate_start_transaction with WRITE of an inactive transaction
\* on such a handle returns 0 and leaves the transaction active with
\* permissions READ|WRITE, which the query reports; a step that changes a
\* state handle, as kstate_unsubscribe does, changes no transaction;
\* kstate_commit_transaction on an active transaction returns 0 and leaves it
\* inactive; and on an inactive one it returns -EINVAL.
C17_EndToEnd ==
  /\ [](\A s \in DOMAIN state :
          ~Subscribed(s) =>
            LET o == subscribe_outcome(s, Fred, READWRITE, "none") IN
            /\ o.rv = 0
            /\ o.state[s].name = shm_name(Fred)
            /\ o.state[s].permissions = READWRITE)
  /\ [](\A s \in StateSlots, t \in DOMAIN transaction :
          (Subscribed(s) /\ state[s].permissions = READWRITE /\ ~Active(t)) =>
            LET o == start_outcome(t, s, KSTATE_WRITE, "none") IN
            /\ o.rv = 0
            /\ o.transaction[t].name = state[s].name
            /\ o.transaction[t].permissions = READWRITE)
  /\ [](\A t \in TxnSlots :
          Active(t) =>
            /\ kstate_get_transaction_permissions(t) = transaction[t].permissions
            /\ commit_outcome(t, "none").rv = 0
            /\ commit_outcome(t, "none").transaction[t].name = NullName)
  /\ [](\A t \in DOMAIN transaction :
          ~Active(t) =>
            commit_outcome(t, "none") = TransactionOutcome(-EINVAL, transaction, maps))
  /\ [][state' # state => transaction' = transaction]_vars

\* the last state of the scenario: the handle unsubscribed after having been
\* subscribed to "Fred", whose segment exists, and the transaction inactive
\* again with its mapping gone
C17_Witness ==
  /\ \E s \in DOMAIN state : ~Subscribed(s) /\ state[s].shm_fd # -1
  /\ \E t \in DOMAIN transaction : ~Active(t)
  /\ DOMAIN shm = {shm_name(Fred)}
  /\ Fred \in write_subscribed
  /\ maps = <<>>

\* C18: on an active transaction kstate_commit_transaction and
\* kstate_abort_transaction have the same outcome, return value and
\* post-state, whether munmap succeeds or fails and whatever the
\* transaction's permissions; when munmap succeeds they return 0 with the
\* mapping released, the name NULL and the permissions 0.
C18_CommitIsAbort ==
  \A t \in TxnSlots, f \in UnmapFaults :
    Active(t) =>
      /\ commit_outcome(t, f) = abort_outcome(t, f)
      /\ f = "none" =>
           LET o == commit_outcome(t, f) IN
           /\ o.rv = 0
           /\ o.transaction[t] = [transaction[t] EXCEPT !.name = NullName, !.permissions = 0,
                                                        !.map_addr = 0, !.map_length = 0]
           /\ transaction[t].map_addr \notin DOMAIN o.maps

\* two active transactions, one with READ alone and one with READ|WRITE
C18_Witness ==
  \E t \in TxnSlots, u \in TxnSlots :
    /\ Active(t) /\ transaction[t].permissions = KSTATE_READ
    /\ Active(u) /\ transaction[u].permissions = READWRITE

\* C19: kstate_commit_transaction on an active transaction that holds READ
\* alone returns -EPERM and leaves it active and unchanged, and
\* kstate_abort_transaction on it returns 0 and leaves it inactive.
C19_CommitReadOnlyRefused ==
  \A t \in TxnSlots :
    (Active(t) /\ transaction[t].permissions = KSTATE_READ) =>
      /\ commit_outcome(t, "none") = TransactionOutcome(-EPERM, transaction, maps)
      /\ abort_outcome(t, "none").rv = 0
      /\ abort_outcome(t, "none").transaction[t].name = NullName

\* the permissions a successful call stores for the request p
Stored(p) == IF p = KSTATE_WRITE THEN READWRITE ELSE p

\* C20: for a NULL pointer, an unsubscribed state and an inactive transaction
\* the queries return NULL (names) and 0 (permissions, id); for a subscribed
\* state and an active transaction they return the name without its '/' and
\* the stored permissions and id.  The values are those of the call that
\* succeeded: a state that becomes subscribed reports the name and the
\* (normalised) permissions of a kstate_subscribe that returns 0, a
\* transaction that becomes active reports the name of a subscribed state, the
\* permissions of a kstate_start_transaction on it that returns 0 and the id
\* it was created with; and the reports do not change while the state stays
\* subscribed or the transaction active.
C20_Queries ==
  /\ [](\A s \in StateSlots :
          IF Subscribed(s)
          THEN /\ shm_name(kstate_get_state_name(s)) = state[s].name
               /\ kstate_get_state_name(s) \in ValidNames
               /\ kstate_get_state_permissions(s) = state[s].permissions
               /\ kstate_get_state_permissions(s) # 0
          ELSE /\ kstate_get_state_name(s) = NullName
               /\ kstate_get_state_permissions(s) = 0)
  /\ [](\A t \in TxnSlots :
          IF Active(t)
          THEN /\ shm_name(kstate_get_transaction_state_name(t)) = transaction[t].name
               /\ kstate_get_transaction_state_name(t) \in ValidNames
               /\ kstate_get_transaction_permissions(t) = transaction[t].permissions
               /\ kstate_get_transaction_permissions(t) # 0
               /\ kstate_get_transaction_id(t) = transaction[t].id
          ELSE /\ kstate_get_transaction_state_name(t) = NullName
               /\ kstate_get_transaction_permissions(t) = 0
               /\ kstate_get_transaction_id(t) = 0)
  /\ [][/\ \A s \in StateSlots :
             /\ (~Subscribed(s) /\ Subscribed(s)') =>
                  \E n \in ValidNames, p \in {KSTATE_READ, KSTATE_WRITE, READWRITE} :
                    /\ subscribe_outcome(s, n, p, "none").rv = 0
                    /\ kstate_get_state_name(s)' = n
                    /\ kstate_get_state_permissions(s)' = Stored(p)
             /\ (Subscribed(s) /\ Subscribed(s)') =>
                  /\ kstate_get_state_name(s)' = kstate_get_state_name(s)
                  /\ kstate_get_state_permissions(s)' = kstate_get_state_permissions(s)
        /\ \A t \in TxnSlots :
             /\ (~Active(t) /\ Active(t)') =>
                  \E s \in StateSlots, p \in {KSTATE_READ, KSTATE_WRITE, READWRITE} :
                    /\ start_outcome(t, s, p, "none").rv = 0
                    /\ kstate_get_transaction_state_name(t)' = kstate_get_state_name(s)
                    /\ kstate_get_transaction_permissions(t)' = Stored(p)
                    /\ kstate_get_transaction_id(t)' = transaction[t].id
             /\ (Active(t) /\ Active(t)') =>
                  /\ kstate_get_transaction_state_name(t)'
                       = kstate_get_transaction_state_name(t)
                  /\ kstate_get_transaction_permissions(t)'
                       = kstate_get_transaction_permissions(t)
                  /\ kstate_get_transaction_id(t)' = kstate_get_transaction_id(t)]_vars

\* a subscribed state next to a NULL state pointer, and an active transaction
\* next to an inactive one
C20_Witness ==
  /\ \E s \in StateSlots : Subscribed(s)
  /\ \E s \in StateSlots : s \notin DOMAIN state
  /\ \E t \in TxnSlots : Active(t)
  /\ \E t \in DOMAIN transaction : ~Active(t)

\* C21: a kstate_subscribe(s, n, p) that returns 0 leaves the state reporting
\* exactly n as its name (without the internal '/'), and a
\* kstate_start_transaction on a state that returns 0 leaves the transaction
\* reporting the name the state reports.
C21_NameRoundTrip ==
  [][/\ \A s \in StateSlots, n \in NameInputs, p \in PermInputs :
          LET out == subscribe_outcome(s, n, p, "none") IN
          (~Subscribed(s) /\ Subscribed(s)' /\ out.rv = 0 /\ state' = out.state) =>
            kstate_get_state_name(s)' = n
     /\ \A t \in TxnSlots, s \in StateSlots, p \in PermInputs :
          LET out == start_outcome(t, s, p, "none") IN
          (/\ ~Active(t) /\ Active(t)' /\ state' = state
           /\ out.rv = 0 /\ transaction' = out.transaction) =>
            /\ kstate_get_transaction_state_name(t)' = kstate_get_state_name(s)
            /\ kstate_get_transaction_state_name(t)' \in ValidNames]_vars

\* a state subscribed to Fred with a transaction started on it
C21_Witness ==
  \E s \in StateSlots, t \in TxnSlots :
    /\ Subscribed(s) /\ Active(t)
    /\ kstate_get_state_name(s) = Fred
    /\ transaction[t].name = state[s].name
    /\ kstate_get_transaction_state_name(t) = Fred

\* C22: kstate_unsubscribe on a NULL pointer or on an unsubscribed state
\* changes neither the handle nor the descriptors, mappings and segments of
\* the process, whether or not munmap would fail; and a kstate_unsubscribe of
\* a subscribed state leaves it unsubscribed, so that a second
\* kstate_unsubscribe changes nothing more.
C22_UnsubscribeIdempotent ==
  /\ [](\A s \in StateSlots, f \in UnmapFaults :
          ~Subscribed(s) =>
            unsubscribe_outcome(s, f) = StateOutcome(0, state, fds, maps, shm))
  /\ [][\A s \in StateSlots :
          (/\ Subscribed(s)
           /\ state' = unsubscribe_outcome(s, "none").state
           /\ maps' = unsubscribe_outcome(s, "none").maps
           /\ UNCHANGED <<fds, shm>>) =>
            /\ ~Subscribed(s)'
            /\ unsubscribe_outcome(s, "none")' = StateOutcome(0, state', fds', maps', shm')]_vars

\* a handle that was unsubscribed (its name is gone, its descriptor field is
\* not the sentinel) next to a subscribed one and a NULL pointer
C22_Witness ==
  /\ \E s \in DOMAIN state :
       ~Subscribed(s) /\ state[s].shm_fd # -1 /\ state[s].map_addr = 0
  /\ \E s \in StateSlots : Subscribed(s) \/ s \notin DOMAIN state
  /\ maps # << >>

\* C23: kstate_free_state on a NULL pointer changes nothing.  On a handle it
\* sets the caller's pointer to NULL, leaves every other handle as it was,
\* and leaves the descriptors, mappings and segments of the process as
\* kstate_unsubscribe would leave them if the handle is subscribed and
\* untouched if it is not.
C23_FreeState ==
  /\ [](\A s \in StateSlots, f \in UnmapFaults :
          LET out == free_state_outcome(s, f)
              unsub == unsubscribe_outcome(s, f)
              same == StateOutcome(0, state, fds, maps, shm)
          IN
          IF s \notin DOMAIN state THEN out = same
          ELSE /\ out.state = Without(state, s)
               /\ IF Subscribed(s)
                  THEN out.fds = unsub.fds /\ out.maps = unsub.maps /\ out.shm = unsub.shm
                  ELSE out.fds = fds /\ out.maps = maps /\ out.shm = shm)
  /\ [][\A s \in DOMAIN state :
          s \notin DOMAIN state' =>
            /\ state' = Without(state, s)
            /\ maps' = unsubscribe_outcome(s, "none").maps
            /\ Subscribed(s) => state[s].map_addr \notin DOMAIN maps'
            /\ UNCHANGED <<fds, shm, transaction>>]_vars

\* a pointer that is NULL again after its handle was subscribed and freed (the
\* descriptor it opened belongs to no handle), next to a subscribed handle
C23_Witness ==
  /\ \E s \in StateSlots :
       /\ s \notin DOMAIN state
       /\ \E fd \in DOMAIN fds : \A r \in DOMAIN state : state[r].shm_fd # fd
  /\ \E r \in StateSlots : Subscribed(r)

\* C24: kstate_free_transaction on an active transaction leaves the mappings
\* as kstate_abort_transaction would leave them, and sets the caller's
\* pointer to NULL without touching any other transaction; when munmap
\* succeeds the abort it stands for returns 0 and clears the name, and no
\* mapping remains at the freed transaction's address.  Through a NULL
\* pointer kstate_abort_transaction and kstate_commit_transaction return
\* -EINVAL and change nothing, in particular in the state that follows the
\* free.
C24_FreeTransaction ==
  /\ [](\A t \in TxnSlots, f \in UnmapFaults :
          Active(t) =>
            LET out == free_transaction_outcome(t, f)
                ab == abort_outcome(t, f)
            IN
            /\ out.transaction = Without(transaction, t)
            /\ out.maps = ab.maps
            /\ f = "none" =>
                 /\ ab.rv = 0
                 /\ ab.transaction[t].name = NullName
                 /\ ~has_mapping(ab.transaction[t])
                 /\ out.maps = Without(maps, transaction[t].map_addr)
                 /\ transaction[t].map_addr \notin DOMAIN out.maps)
  /\ [](\A t \in TxnSlots, f \in UnmapFaults :
          t \notin DOMAIN transaction =>
            /\ abort_outcome(t, f) = TransactionOutcome(-EINVAL, transaction, maps)
            /\ commit_outcome(t, f) = TransactionOutcome(-EINVAL, transaction, maps))
  /\ [][\A t \in TxnSlots :
          (Active(t) /\ t \notin DOMAIN transaction') =>
            /\ transaction' = Without(transaction, t)
            /\ maps' = Without(maps, transaction[t].map_addr)
            /\ abort_outcome(t, "none")'.rv = -EINVAL
            /\ commit_outcome(t, "none")'.rv = -EINVAL
            /\ UNCHANGED <<state, fds, shm>>]_vars

\* a pointer that is NULL after its transaction was freed (the id counter is
\* ahead of the transactions that exist), next to a transaction still active
C24_Witness ==
  /\ \E t \in TxnSlots : t \notin DOMAIN transaction
  /\ next_transaction_id - 1 > Cardinality(DOMAIN transaction)
  /\ \E r \in TxnSlots : Active(r) /\ transaction[r].map_addr \in DOMAIN maps

\* C25: every step that changes a transaction handle, or that changes the
\* mappings of the process without changing a state handle (the steps of
\* kstate_start_transaction, successful or failed, kstate_abort_transaction,
\* kstate_commit_transaction and kstate_free_transaction), leaves every state
\* handle's fields, the open descriptors and the segments as they were, and
\* leaves each state's own mapping in place.
C25_TransactionsLeaveStates ==
  [][(transaction' # transaction \/ (maps' # maps /\ state' = state)) =>
       /\ state' = state
       /\ fds' = fds
       /\ shm' = shm
       /\ \A s \in DOMAIN state :
            (has_mapping(state[s]) /\ state[s].map_addr \in DOMAIN maps) =>
              /\ state[s].map_addr \in DOMAIN maps'
              /\ maps'[state[s].map_addr] = maps[state[s].map_addr]]_vars

\* a transaction active on a subscribed state whose own mapping is in place
C25_Witness ==
  \E s \in StateSlots, t \in TxnSlots :
    /\ Subscribed(s) /\ Active(t)
    /\ transaction[t].name = state[s].name
    /\ state[s].map_addr \in DOMAIN maps
    /\ transaction[t].map_addr \in DOMAIN maps
    /\ transaction[t].map_addr # state[s].map_addr

\* C26: of two active transactions, kstate_abort_transaction and
\* kstate_commit_transaction on either return 0, whichever was started first;
\* the step that finishes or frees one leaves the other active with its
\* fields and its mapping as they were, and in the state that follows abort
\* and commit on the other still return 0.
C26_TwoTransactions ==
  /\ [](\A t1 \in TxnSlots, t2 \in TxnSlots :
          (t1 # t2 /\ Active(t1) /\ Active(t2)) =>
            \A out \in {abort_outcome(t1, "none"), commit_outcome(t1, "none")} :
              /\ out.rv = 0
              /\ out.transaction[t1].name = NullName
              /\ out.transaction[t2] = transaction[t2]
              /\ transaction[t2].map_addr \in DOMAIN out.maps
              /\ transaction[t1].map_addr \notin DOMAIN out.maps)
  /\ [][\A t1 \in TxnSlots, t2 \in TxnSlots :
          (t1 # t2 /\ Active(t1) /\ Active(t2) /\ ~Active(t1)') =>
            /\ Active(t2)'
            /\ transaction'[t2] = transaction[t2]
            /\ transaction[t2].map_addr \in DOMAIN maps'
            /\ abort_outcome(t2, "none")'.rv = 0
            /\ commit_outcome(t2, "none")'.rv = 0]_vars

\* two transactions active on the same subscribed state, each with its own
\* mapping of the state's segment
C26_Witness ==
  \E s \in StateSlots, t1 \in TxnSlots, t2 \in TxnSlots :
    /\ t1 # t2 /\ Subscribed(s) /\ Active(t1) /\ Active(t2)
    /\ transaction[t1].name = state[s].name
    /\ transaction[t2].name = state[s].name
    /\ transaction[t1].id < transaction[t2].id
    /\ transaction[t1].map_addr # transaction[t2].map_addr
    /\ maps[transaction[t1].map_addr].seg = maps[transaction[t2].map_addr].seg

\* C27: once a subscription with WRITE to the name n has succeeded, a
\* kstate_subscribe of an unsubscribed handle to n with READ alone returns 0
\* in every later state of the process in which fewer handles are subscribed
\* than the process may have descriptors open.
C27_SegmentPersists ==
  \A n \in write_subscribed, s \in DOMAIN state :
    (~Subscribed(s) /\ Cardinality({r \in DOMAIN state : Subscribed(r)}) < MaxOpenFds) =>
      subscribe_outcome(s, n, KSTATE_READ, shm_open_fault).rv = 0

\* C28: kstate_new_state and kstate_new_transaction on a NULL pointer return
\* a handle when malloc succeeds, the state unsubscribed with the sentinel in
\* its descriptor field and the transaction inactive, every other handle as
\* it was; when malloc fails they return NULL and the handles of the process
\* are as they were.
C28_NewOrNull ==
  /\ \A s \in StateSlots, f \in AllocationFaults :
       s \notin DOMAIN state =>
         \A out \in new_state_outcomes(s, f) :
           IF f = "none"
           THEN /\ out.result = "handle"
                /\ out.state[s].name = NullName
                /\ out.state[s].shm_fd = -1
                /\ ~has_mapping(out.state[s])
                /\ \A r \in DOMAIN state : out.state[r] = state[r]
           ELSE /\ out.result = "NULL"
                /\ out.state = state
  /\ \A t \in TxnSlots, f \in AllocationFaults :
       t \notin DOMAIN transaction =>
         \A out \in new_transaction_outcomes(t, f) :
           IF f = "none"
           THEN /\ out.result = "handle"
                /\ out.transaction[t].name = NullName
                /\ ~has_mapping(out.transaction[t])
                /\ \A r \in DOMAIN transaction : out.transaction[r] = transaction[r]
           ELSE /\ out.result = "NULL"
                /\ out.transaction = transaction
                /\ out.next_transaction_id = next_transaction_id

\* C29: a kstate_subscribe that gets past shm_open and then fails, in
\* ftruncate or in mmap, returns a negative error number, leaves the open
\* descriptors and the mappings of the process as they were before the call,
\* and leaves the state unsubscribed with the sentinel -1 in its descriptor
\* field.
C29_FailedSubscribeCloses ==
  \A s \in StateSlots, n \in NameInputs, p \in PermInputs, f \in {"ftruncate", "mmap"} :
    LET out == subscribe_outcome(s, n, p, f) IN
    (/\ ~subscribe_invalid(s, n, p)
     /\ open_creating(add_read(p)) \/ shm_name(n) \in DOMAIN shm
     /\ out.rv # 0) =>
      /\ out.rv < 0
      /\ out.fds = fds
      /\ out.maps = maps
      /\ out.state[s].name = NullName
      /\ out.state[s].permissions = 0
      /\ ~has_mapping(out.state[s])
      /\ out.state[s].shm_fd = -1

\* C30: the mapping a subscribed state holds of its segment is readable, and
\* it is writable exactly when the state's (normalised) permissions include
\* WRITE.
C30_StateMappingProtection ==
  \A s \in StateSlots :
    Subscribed(s) =>
      /\ state[s].map_addr \in DOMAIN maps
      /\ BitAnd(maps[state[s].map_addr].prot, PROT_READ) # 0
      /\ BitAnd(maps[state[s].map_addr].prot, PROT_WRITE) # 0
           <=> BitAnd(state[s].permissions, KSTATE_WRITE) # 0

\* C31: an active transaction holds a mapping of its own, at an address no
\* subscribed state's mapping has, onto the segment of its name and one page
\* long as the state's; the mapping is readable, and it is writable exactly
\* when the transaction's permissions include WRITE.
C31_TransactionMappingProtection ==
  \A t \in TxnSlots :
    Active(t) =>
      /\ transaction[t].map_addr \in DOMAIN maps
      /\ maps[transaction[t].map_addr].seg = transaction[t].name
      /\ maps[transaction[t].map_addr].length = transaction[t].map_length
      /\ \A s \in StateSlots :
           Subscribed(s) =>
             /\ state[s].map_addr # transaction[t].map_addr
             /\ state[s].name = transaction[t].name =>
                  state[s].map_length = transaction[t].map_length
      /\ BitAnd(maps[transaction[t].map_addr].prot, PROT_READ) # 0
      /\ BitAnd(maps[transaction[t].map_addr].prot, PROT_WRITE) # 0
           <=> BitAnd(transaction[t].permissions, KSTATE_WRITE) # 0

\* C32: a kstate_subscribe with WRITE to a name whose segment already exists
\* performs no set-size operation on it: the sizes of the segments after the
\* call are those before it, and a set-size operation that would fail does
\* not make the call fail.
C32_ExistingSegmentNotResized ==
  \A s \in StateSlots, n \in NameInputs, p \in PermInputs :
    (/\ ~subscribe_invalid(s, n, p)
     /\ open_creating(add_read(p))
     /\ shm_name(n) \in DOMAIN shm) =>
      /\ subscribe_outcome(s, n, p, "none").rv = 0
      /\ subscribe_outcome(s, n, p, "none").shm = shm
      /\ subscribe_outcome(s, n, p, "ftruncate") = subscribe_outcome(s, n, p, "none")

\* C33: a kstate_start_transaction that returns an error, whether for its
\* arguments, for the allocation of the name copy or for the mapping, leaves
\* every field of every transaction and the mappings of the process as they
\* were before the call.
C33_FailedStartUnwinds ==
  \A t \in TxnSlots, s \in StateSlots, p \in PermInputs, f \in StartFaults :
    LET out == start_outcome(t, s, p, f) IN
    out.rv # 0 =>
      /\ out.rv < 0
      /\ out.transaction = transaction
      /\ out.maps = maps

\* C34: when munmap fails, kstate_abort_transaction and
\* kstate_commit_transaction on an active transaction return the negative
\* error number and leave every transaction and every mapping as they were,
\* the transaction still active; the same call with a munmap that succeeds
\* then returns 0 and finishes it.
C34_FailedUnmapKeepsActive ==
  \A t \in TxnSlots :
    Active(t) =>
      /\ has_mapping(transaction[t])
      /\ \A out \in {abort_outcome(t, "munmap"), commit_outcome(t, "munmap")} :
           /\ out.rv = -EINVAL
           /\ out.transaction = transaction
           /\ out.maps = maps
           /\ out.transaction[t].name # NullName
           /\ out.transaction[t].map_addr \in DOMAIN out.maps
      /\ \A out \in {abort_outcome(t, "none"), commit_outcome(t, "none")} :
           /\ out.rv = 0
           /\ out.transaction[t].name = NullName
           /\ transaction[t].map_addr \notin DOMAIN out.maps

\* an active transaction on which abort fails in munmap
C34_Witness ==
  \E t \in TxnSlots :
    /\ Active(t)
    /\ transaction[t].map_addr \in DOMAIN maps
    /\ abort_outcome(t, "munmap").rv < 0
    /\ commit_outcome(t, "munmap").rv < 0

\* C35: kstate_start_transaction of an inactive transaction with READ alone
\* on a subscribed state, whatever the state's permissions, returns 0 and
\* leaves the transaction active with permissions READ.
C35_ReadTransactionAlwaysStarts ==
  \A t \in DOMAIN transaction, s \in StateSlots :
    (~Active(t) /\ Subscribed(s)) =>
      LET out == start_outcome(t, s, KSTATE_READ, "none") IN
      /\ out.rv = 0
      /\ out.transaction[t].name = state[s].name
      /\ out.transaction[t].permissions = KSTATE_READ

\* C36: whenever no state handle is subscribed and no transaction is active,
\* the process has no segment descriptor open and no mapping.
C36_NoResourcesWhenIdle ==
  ((\A s \in StateSlots : ~Subscribed(s)) /\ (\A t \in TxnSlots : ~Active(t))) =>
    /\ fds = << >>
    /\ maps = << >>

\* C37: whenever a kstate_subscribe returns 0, in whatever order the platform
\* calls of two processes subscribing at once are made, the segment the
\* handle is then mapped onto is at least as large as the mapping.
C37_MappedSegmentIsSized ==
  [][\A s \in StateSlots :
       (call[s].at = "mmap" /\ call'[s].at = "idle" /\ state'[s].name # NullName) =>
         /\ state'[s].map_addr \in DOMAIN maps'
         /\ shm'[state'[s].name] >= state'[s].map_length]_vars


\* a < b for two uint32_t values
uint32_less(a, b) == IF (a < 0) = (b < 0) THEN a < b ELSE b < 0

\* C38: every kstate_new_transaction gives the new transaction an id that is
\* not 0 and is greater, as a 32-bit unsigned number, than the id of every
\* transaction that exists at that moment, so no two existing transactions
\* share an id; this for every value the counter can hold.
C38_IdsIncrease ==
  [][\A t \in TxnSlots :
       (t \notin DOMAIN transaction /\ t \in DOMAIN transaction') =>
         /\ transaction'[t].id = next_transaction_id
         /\ next_transaction_id' = uint32_increment(next_transaction_id)
         /\ transaction'[t].id # 0
         /\ \A u \in DOMAIN transaction :
              uint32_less(transaction[u].id, transaction'[t].id)]_vars


\* C39: for every prefix that kstate_check_name accepts and with which the
\* composed name is no longer than KSTATE_MAX_NAME_LEN, a call of
\* kstate_get_unique_name in which the platform does not fail returns a name,
\* not NULL, that begins with the prefix, that kstate_check_name accepts and
\* that no earlier call in the process has returned.
C39_UniqueName ==
  \A prefix \in UniquePrefixes, tv \in Times :
    (/\ kstate_check_name(prefix) # 0
     /\ Len(unique_name_format(prefix, tv, unique.pid, unique.extra))
          <= KSTATE_MAX_NAME_LEN) =>
      LET name == unique_name_outcome(prefix, tv, "none").name IN
      /\ name # NullName
      /\ SubSeq(name, 1, Len(prefix)) = prefix
      /\ kstate_check_name(name) # 0
      /\ name \notin unique.returned

====
